---- MODULE Spec2Model ----
(***************************************************************************)
(* Model of optuna/visualization/_parallel_coordinate.py:                  *)
(* _get_parallel_coordinate_plot(study, params, target, target_name).      *)
(*                                                                         *)
(* Representation.                                                         *)
(*  - A str that the code measures, slices or sorts (parameter names,      *)
(*    target_name, labels) is the sequence of its character codes.         *)
(*  - A float is a fixed-point integer counting thousandths (1.0 is 1000); *)
(*    integers of range(...) that are compared with floats are held in the *)
(*    same unit.  Category codes are plain integers.                       *)
(*  - A str that is only stored and compared (a categorical choice, a tick *)
(*    text) is a TLA+ string.                                              *)
(*  - Optional[X] is a sequence of length 0 (None) or 1 (the value).       *)
(*  - A FrozenTrial is [state, params, value]; params is a function whose  *)
(*    DOMAIN is the set of parameter names the trial has.                  *)
(***************************************************************************)
EXTENDS Integers, Sequences, FiniteSets, TLC

VARIABLES
    study_trials,   \* study.trials
    direction,      \* study.direction
    distributions,  \* search space read by _is_log_scale / _is_categorical
    params,         \* argument params: Optional[List[str]]
    target,         \* argument target: "None" or the name of a callable
    target_name,    \* argument target_name
    pc,             \* position in _get_parallel_coordinate_plot
    trials,         \* local trials (line 98)
    sorted_params,  \* local sorted_params (line 110)
    reversescale,   \* local reversescale (lines 118, 120)
    dims,           \* local dims (lines 122-168)
    figure,         \* the returned go.Figure, Optional
    raised          \* the parameter named by the raised ValueError, Optional

vars == <<study_trials, direction, distributions, params, target, target_name,
          pc, trials, sorted_params, reversescale, dims, figure, raised>>

(***************************************************************************)
(* Bounds of the inputs.                                                   *)
(***************************************************************************)
MaxTrials == 2
MaxLogTrials == 2
MaxCatTrials == 4

(***************************************************************************)
(* Program constants.                                                      *)
(***************************************************************************)
LabelLimit == 20
LabelKeep == 17

None == <<>>
Some(v) == <<v>>

Range(s) == {s[i] : i \in DOMAIN s}

\* "..." in "{}...".format(p_name[:17])
Ellipsis == <<46, 46, 46>>

(***************************************************************************)
(* Python built-ins used by the function.                                  *)
(***************************************************************************)
\* min(values), max(values) over a non-empty list of numbers
MinOf(values) == CHOOSE m \in Range(values) : \A v \in Range(values) : m <= v
MaxOf(values) == CHOOSE m \in Range(values) : \A v \in Range(values) : v <= m

\* str < str: code-point lexicographic order, a proper prefix sorts first
RECURSIVE StrLess(_, _)
StrLess(a, b) ==
    IF b = <<>> THEN FALSE
    ELSE IF a = <<>> THEN TRUE
    ELSE IF Head(a) # Head(b) THEN Head(a) < Head(b)
    ELSE StrLess(Tail(a), Tail(b))

\* variant: sorted(..., reverse=True)
RECURSIVE SortedDescending(_)
SortedDescending(S) ==
    IF S = {} THEN <<>>
    ELSE LET most == CHOOSE a \in S : \A b \in S \ {a} : StrLess(b, a)
         IN  <<most>> \o SortedDescending(S \ {most})

\* sorted(list(all_params)) for a set of str
RECURSIVE Sorted(_)
Sorted(S) ==
    IF S = {} THEN <<>>
    ELSE LET least == CHOOSE a \in S : \A b \in S \ {a} : StrLess(a, b)
         IN  <<least>> \o Sorted(S \ {least})

\* math.ceil of a fixed-point number, as an int
Ceil(x) == -((-x) \div 1000)

\* list(range(lo, hi)) held in fixed point
IntRange(lo, hi) == [k \in 1..(IF hi > lo THEN hi - lo ELSE 0) |-> (lo + k - 1) * 1000]

\* math.log10 on the raw values the inputs use, rounded to thousandths
Log10(v) ==
    CASE v = 50     -> -1301
      [] v = 100    -> -1000
      [] v = 500    -> -301
      [] v = 1000   -> 0
      [] v = 2000   -> 301
      [] v = 10000  -> 1000
      [] v = 100000 -> 2000
      [] v = 200000 -> 2301

\* "{:.3g}".format(math.pow(10, x)) on the tick positions the inputs produce
FormatPow10(x) ==
    CASE x = -2000 -> "0.01"
      [] x = -1301 -> "0.05"
      [] x = -1000 -> "0.1"
      [] x = -301  -> "0.5"
      [] x = 0     -> "1"
      [] x = 301   -> "2"
      [] x = 1000  -> "10"
      [] x = 2000  -> "100"
      [] x = 2301  -> "200"
      [] x = 3000  -> "1e+03"

(***************************************************************************)
(* The steps of _get_parallel_coordinate_plot as operators.                *)
(***************************************************************************)
\* variant: the state of a trial is not looked at
CompleteTrialsUnfiltered(ts) == ts

\* line 98: [trial for trial in study.trials if trial.state == COMPLETE]
IsComplete(t) == t.state = "COMPLETE"
CompleteTrials(ts) ==
    SelectSeq(ts, IsComplete)

\* line 104: {p_name for t in trials for p_name in t.params.keys()}
AllParams(ts) == UNION {DOMAIN ts[i].params : i \in DOMAIN ts}

\* variant: the last unknown name is reported instead of the first
UnknownParamLast(names, all_params) ==
    LET bad == {i \in DOMAIN names : names[i] \notin all_params}
    IN  IF bad = {} THEN None
        ELSE Some(names[CHOOSE i \in bad : \A j \in bad : j <= i])

\* lines 106-108: the first name of params that is not in all_params
UnknownParam(names, all_params) ==
    LET bad == {i \in DOMAIN names : names[i] \notin all_params}
    IN  IF bad = {} THEN None
        ELSE Some(names[CHOOSE i \in bad : \A j \in bad : i <= j])

\* lines 104-109: all_params after the optional restriction to set(params)
SelectedParams(ps, ts) == IF ps = None THEN AllParams(ts) ELSE Range(ps[1])

\* lines 112-117: target(t); the default reads t.value
ApplyTarget(tg, t) == IF tg = "None" THEN t.value ELSE 0 - t.value

\* lines 118, 120
ReverseScale(tg, dir) == IF tg = "None" THEN dir = "MINIMIZE" ELSE TRUE

\* lines 122-128: the target dimension
TargetDim(ts, tg, name) ==
    LET vals == [i \in DOMAIN ts |-> ApplyTarget(tg, ts[i])]
    IN  [label |-> name, values |-> vals, range |-> <<MinOf(vals), MaxOf(vals)>>]

\* variant: values.insert(0, ...), the values come out in reverse trial order
RECURSIVE CollectValuesReversed(_, _)
CollectValuesReversed(ts, p_name) ==
    IF ts = <<>> THEN <<>>
    ELSE CollectValuesReversed(Tail(ts), p_name)
         \o (IF p_name \in DOMAIN Head(ts).params
             THEN <<Head(ts).params[p_name]>> ELSE <<>>)

\* lines 130-133: values of p_name over the trials that have it
RECURSIVE CollectValues(_, _)
CollectValues(ts, p_name) ==
    IF ts = <<>> THEN <<>>
    ELSE (IF p_name \in DOMAIN Head(ts).params
          THEN <<Head(ts).params[p_name]>> ELSE <<>>)
         \o CollectValues(Tail(ts), p_name)

\* variant: len(p_name) <= 20 keeps the name
LabelInclusive(p_name) ==
    IF Len(p_name) <= LabelLimit THEN p_name
    ELSE SubSeq(p_name, 1, LabelKeep) \o Ellipsis

\* lines 145, 155, 163: p_name if len(p_name) < 20 else "{}...".format(p_name[:17])
Label(p_name) ==
    IF Len(p_name) < LabelLimit THEN p_name
    ELSE SubSeq(p_name, 1, LabelKeep) \o Ellipsis

\* variant: the integer ticks start at floor(min_value)
LogTickvalsFloor(min_value, max_value) ==
    LET r  == IntRange(min_value \div 1000, Ceil(max_value))
        t1 == IF min_value \notin Range(r) THEN <<min_value>> \o r ELSE r
    IN  IF max_value \notin Range(t1) THEN t1 \o <<max_value>> ELSE t1

\* variant: the integer ticks run through ceil(max_value) inclusive
LogTickvalsInclusive(min_value, max_value) ==
    LET r  == IntRange(Ceil(min_value), Ceil(max_value) + 1)
        t1 == IF min_value \notin Range(r) THEN <<min_value>> \o r ELSE r
    IN  IF max_value \notin Range(t1) THEN t1 \o <<max_value>> ELSE t1

\* lines 139-143
LogTickvals(min_value, max_value) ==
    LET r  == IntRange(Ceil(min_value), Ceil(max_value))
        t1 == IF min_value \notin Range(r) THEN <<min_value>> \o r ELSE r
    IN  IF max_value \notin Range(t1) THEN t1 \o <<max_value>> ELSE t1

\* lines 152-153: the keys of vocab in insertion order after
\* [vocab[v] for v in values]; vocab[key] is the key's position minus one
RECURSIVE VocabKeys(_)
VocabKeys(values) ==
    IF values = <<>> THEN <<>>
    ELSE LET before == VocabKeys(SubSeq(values, 1, Len(values) - 1))
             v == values[Len(values)]
         IN  IF v \in Range(before) THEN before ELSE Append(before, v)

\* variant: codes are handed out from 1
VocabCodeFromOne(keys, v) == CHOOSE i \in DOMAIN keys : keys[i] = v

\* vocab[v] once v is a key
VocabCode(keys, v) == (CHOOSE i \in DOMAIN keys : keys[i] = v) - 1

\* lines 135, 151: results of the helpers of optuna.visualization._utils
IsLogScale(ts, p_name) == distributions[p_name] \in {"log", "logcat"}
IsCategorical(ts, p_name) == distributions[p_name] \in {"cat", "logcat"}

\* lines 136-150
LogDim(p_name, raw) ==
    LET values == [i \in DOMAIN raw |-> Log10(raw[i])]
        min_value == MinOf(values)
        max_value == MaxOf(values)
        tickvals == LogTickvals(min_value, max_value)
    IN  [label |-> Label(p_name), values |-> values,
         range |-> <<min_value, max_value>>,
         tickvals |-> tickvals,
         ticktext |-> [i \in DOMAIN tickvals |-> FormatPow10(tickvals[i])]]

\* lines 152-160
CategoricalDim(p_name, raw) ==
    LET keys == VocabKeys(raw)
        values == [i \in DOMAIN raw |-> VocabCode(keys, raw[i])]
    IN  [label |-> Label(p_name), values |-> values,
         range |-> <<MinOf(values), MaxOf(values)>>,
         tickvals |-> [i \in 1..Len(keys) |-> i - 1],
         ticktext |-> keys]

\* lines 162-166
NumericDim(p_name, raw) ==
    [label |-> Label(p_name), values |-> raw,
     range |-> <<MinOf(raw), MaxOf(raw)>>]

\* variant: the categorical test comes before the log-scale test
ParamDimCategoricalFirst(ts, p_name) ==
    LET raw == CollectValues(ts, p_name)
    IN  IF IsCategorical(ts, p_name) THEN CategoricalDim(p_name, raw)
        ELSE IF IsLogScale(ts, p_name) THEN LogDim(p_name, raw)
        ELSE NumericDim(p_name, raw)

\* lines 130-166: one iteration of the loop over sorted_params
ParamDim(ts, p_name) ==
    LET raw == CollectValues(ts, p_name)
    IN  IF IsLogScale(ts, p_name) THEN LogDim(p_name, raw)
        ELSE IF IsCategorical(ts, p_name) THEN CategoricalDim(p_name, raw)
        ELSE NumericDim(p_name, raw)

(***************************************************************************)
(* Inputs: parameter names, target names, trials, arguments.               *)
(***************************************************************************)
\* "x", "xy", "w", "lr"
x == <<120>>
xy == <<120, 121>>
w == <<119>>
lr == <<108, 114>>
\* "learning_rate_init_" (19), "learning_rate_initia" (20),
\* "learning_rate_initial" (21), "this_is_a_very_long_parameter_name" (34)
name19 == <<108, 101, 97, 114, 110, 105, 110, 103, 95, 114, 97, 116, 101, 95,
            105, 110, 105, 116, 95>>
name20 == <<108, 101, 97, 114, 110, 105, 110, 103, 95, 114, 97, 116, 101, 95,
            105, 110, 105, 116, 105, 97>>
name21 == <<108, 101, 97, 114, 110, 105, 110, 103, 95, 114, 97, 116, 101, 95,
            105, 110, 105, 116, 105, 97, 108>>
name34 == <<116, 104, 105, 115, 95, 105, 115, 95, 97, 95, 118, 101, 114, 121,
            95, 108, 111, 110, 103, 95, 112, 97, 114, 97, 109, 101, 116, 101,
            114, 95, 110, 97, 109, 101>>
LongNames == {name19, name20, name21, name34}
ParamNames == {x, xy, w, lr} \cup LongNames

\* "Objective Value" (the default), "loss", "validation_loss_of_fold_1" (25)
ObjectiveValue == <<79, 98, 106, 101, 99, 116, 105, 118, 101, 32, 86, 97, 108,
                    117, 101>>
Loss == <<108, 111, 115, 115>>
LongTargetName == <<118, 97, 108, 105, 100, 97, 116, 105, 111, 110, 95, 108,
                    111, 115, 115, 95, 111, 102, 95, 102, 111, 108, 100, 95, 49>>

\* raw values on which Log10 is tabulated: 0.05, 0.1, 0.5, 1, 2, 10, 100, 200
PositiveValues == {50, 100, 500, 1000, 2000, 10000, 100000, 200000}

\* every list of at most n elements of S
SeqsUpTo(S, n) == UNION {[1..k -> S] : k \in 0..n}

\* t.params of a trial that has no parameter, one parameter, two parameters
NoParams == [p \in {} |-> 0]
OneParam(p_name, v) == [p \in {p_name} |-> v]
TwoParams(p1, v1, p2, v2) == [p \in {p1, p2} |-> IF p = p1 THEN v1 ELSE v2]

\* the mappings that give p_name one of vals, or lack it
OptionalParam(p_name, vals) == {NoParams} \cup {OneParam(p_name, v) : v \in vals}

Trial(state, ps, value) == [state |-> state, params |-> ps, value |-> value]

\* arguments and locals at the entry of the function
Entry(ts, dir, dists, ps, tg, name) ==
    /\ study_trials = ts
    /\ direction = dir
    /\ distributions = dists
    /\ params = ps
    /\ target = tg
    /\ target_name = name
    /\ pc = "filter"
    /\ trials = <<>>
    /\ sorted_params = <<>>
    /\ reversescale = FALSE
    /\ dims = <<>>
    /\ figure = None
    /\ raised = None

\* the search space puts one kind of distribution on every parameter
AllOfKind(kind) == [p \in ParamNames |-> kind]

\* Studies with two parameters of which any may be missing from a trial, some
\* trials not COMPLETE, and params lists with duplicates and unknown names.
MixedParamMaps ==
    OptionalParam(x, {1000}) \cup OptionalParam(xy, {"a", "b"})
    \cup {TwoParams(x, 1000, xy, c) : c \in {"a", "b"}}
MixedTrials ==
    {Trial("COMPLETE", ps, v) : ps \in MixedParamMaps, v \in {3000, 5000}}
    \cup {Trial("FAIL", TwoParams(x, 1000, xy, "a"), 0),
          Trial("RUNNING", OneParam(x, 1000), 0)}
MixedParams ==
    {None, Some(<<>>), Some(<<x>>), Some(<<xy, x>>), Some(<<xy, x, xy>>),
     Some(<<w>>), Some(<<x, w, lr>>)}
InitMixed ==
    \E ts \in SeqsUpTo(MixedTrials, MaxTrials), xkind \in {"num", "log", "cat"},
       ps \in MixedParams,
       call \in {<<"None", "MINIMIZE">>, <<"None", "MAXIMIZE">>, <<"negate", "MINIMIZE">>} :
        Entry(ts, call[2], [AllOfKind("cat") EXCEPT ![x] = xkind], ps, call[1],
              ObjectiveValue)

\* Studies with one numeric parameter, under each distribution that takes
\* positive numbers.
ScaleTrials ==
    {Trial("COMPLETE", ps, 1000) : ps \in OptionalParam(lr, PositiveValues)}
    \cup {Trial("PRUNED", OneParam(lr, 1000), 0)}
InitScale ==
    \E ts \in SeqsUpTo(ScaleTrials, MaxLogTrials), kind \in {"num", "log", "logcat"},
       ps \in {None, Some(<<lr>>)} :
        Entry(ts, "MINIMIZE", AllOfKind(kind), ps, "None", Loss)

\* Studies with one categorical parameter of three choices.
ChoiceTrials ==
    {Trial("COMPLETE", ps, 1000) : ps \in OptionalParam(xy, {"a", "b", "c"})}
InitChoice ==
    \E ts \in SeqsUpTo(ChoiceTrials, MaxCatTrials), ps \in {None, Some(<<xy>>)} :
        Entry(ts, "MAXIMIZE", AllOfKind("cat"), ps, "None", ObjectiveValue)

\* Studies whose parameter names are 19, 20, 21 and 34 characters long, the
\* four kinds of distribution spread over the four names.
Kinds == <<"logcat", "log", "cat", "num">>
LongNameOrder == <<name19, name20, name21, name34>>
KindsFrom(r) ==
    [p \in ParamNames |->
        IF p \in LongNames
        THEN Kinds[(((CHOOSE i \in 1..4 : LongNameOrder[i] = p) + r) % 4) + 1]
        ELSE "num"]
InitLongNames ==
    \E r \in 0..3, D \in SUBSET LongNames,
       ps \in {None, Some(<<name20>>), Some(<<name21, name19>>)},
       name \in {ObjectiveValue, LongTargetName} :
        Entry(<<Trial("COMPLETE",
                      [p \in D |-> IF KindsFrom(r)[p] = "cat" THEN "a" ELSE 10000],
                      2000)>>,
              "MINIMIZE", KindsFrom(r), ps, "None", name)

Init == InitMixed \/ InitScale \/ InitChoice \/ InitLongNames

(***************************************************************************)
(* The function, statement by statement.                                   *)
(***************************************************************************)
\* line 98
FilterTrials ==
    /\ pc = "filter"
    /\ trials' = CompleteTrials(study_trials)
    /\ pc' = "check"
    /\ UNCHANGED <<study_trials, direction, distributions, params, target,
                   target_name, sorted_params, reversescale, dims, figure, raised>>

\* lines 100-102: no completed trial, an empty figure is returned
ReturnEmpty ==
    /\ pc = "check"
    /\ Len(trials) = 0
    /\ figure' = Some([data |-> <<>>])
    /\ pc' = "returned"
    /\ UNCHANGED <<study_trials, direction, distributions, params, target,
                   target_name, trials, sorted_params, reversescale, dims, raised>>

\* lines 104-108: a name of params is in no completed trial, ValueError
RaiseUnknown ==
    /\ pc = "check"
    /\ Len(trials) # 0
    /\ params # None
    /\ UnknownParam(params[1], AllParams(trials)) # None
    /\ raised' = UnknownParam(params[1], AllParams(trials))
    /\ pc' = "raised"
    /\ UNCHANGED <<study_trials, direction, distributions, params, target,
                   target_name, trials, sorted_params, reversescale, dims, figure>>

\* lines 104-110: the selected parameters, sorted
SortParams ==
    /\ pc = "check"
    /\ Len(trials) # 0
    /\ params # None => UnknownParam(params[1], AllParams(trials)) = None
    /\ sorted_params' = Sorted(SelectedParams(params, trials))
    /\ pc' = "target"
    /\ UNCHANGED <<study_trials, direction, distributions, params, target,
                   target_name, trials, reversescale, dims, figure, raised>>

\* lines 112-128: the target and its dimension
TargetAxis ==
    /\ pc = "target"
    /\ reversescale' = ReverseScale(target, direction)
    /\ dims' = <<TargetDim(trials, target, target_name)>>
    /\ pc' = "loop"
    /\ UNCHANGED <<study_trials, direction, distributions, params, target,
                   target_name, trials, sorted_params, figure, raised>>

\* lines 129-168: one iteration of for p_name in sorted_params
ParamAxis ==
    /\ pc = "loop"
    /\ Len(dims) <= Len(sorted_params)
    /\ dims' = Append(dims, ParamDim(trials, sorted_params[Len(dims)]))
    /\ UNCHANGED <<study_trials, direction, distributions, params, target,
                   target_name, pc, trials, sorted_params, reversescale, figure, raised>>

\* lines 170-187: the figure with one Parcoords trace
ReturnFigure ==
    /\ pc = "loop"
    /\ Len(dims) > Len(sorted_params)
    /\ figure' = Some([data |-> <<[dimensions |-> dims,
                                   color |-> dims[1].values,
                                   colorbar_title |-> target_name,
                                   reversescale |-> reversescale]>>])
    /\ pc' = "returned"
    /\ UNCHANGED <<study_trials, direction, distributions, params, target,
                   target_name, trials, sorted_params, reversescale, dims, raised>>

Next ==
    \/ FilterTrials
    \/ ReturnEmpty
    \/ RaiseUnknown
    \/ SortParams
    \/ TargetAxis
    \/ ParamAxis
    \/ ReturnFigure

Spec == Init /\ [][Next]_vars

(***************************************************************************)
(* Vocabulary of the properties, stated on the inputs study_trials, params *)
(* and distributions and on the outcome, not through the operators above.  *)
(***************************************************************************)
Finished == pc \in {"returned", "raised"}
\* the call returned a figure that has a trace
Plotted == pc = "returned" /\ figure # None /\ figure[1].data # <<>>
\* the descriptor list of the returned figure
Descriptors == figure[1].data[1].dimensions

\* positions in study.trials of the COMPLETE trials, and of those that have p
Eligible == {i \in DOMAIN study_trials : study_trials[i].state = "COMPLETE"}
Having(p) == {i \in Eligible : p \in DOMAIN study_trials[i].params}
\* the k-th smallest position of a set of positions
Nth(S, k) == CHOOSE i \in S : Cardinality({j \in S : j < i}) = k - 1
\* the raw values of p over the eligible trials that have it, in trial order
RawOf(p) == [k \in 1..Cardinality(Having(p)) |-> study_trials[Nth(Having(p), k)].params[p]]

\* the selected parameter names
Selected ==
    IF params = None
    THEN {p \in ParamNames : Having(p) # {}}
    ELSE {params[1][i] : i \in DOMAIN params[1]}
\* the position of p's axis: one more than its rank in lexicographic order
AxisOf(p) == Descriptors[2 + Cardinality({q \in Selected : StrLess(q, p)})]
\* positions in params of the names that no eligible trial has
UnknownAt == {i \in DOMAIN params[1] : Having(params[1][i]) = {}}

LogBranch(p) == distributions[p] \in {"log", "logcat"}
CatBranch(p) == distributions[p] = "cat"
NumBranch(p) == distributions[p] = "num"
HasTicks(d) == "tickvals" \in DOMAIN d
IsMin(m, values) == (\E i \in DOMAIN values : values[i] = m) /\ (\A i \in DOMAIN values : m <= values[i])
IsMax(m, values) == (\E i \in DOMAIN values : values[i] = m) /\ (\A i \in DOMAIN values : values[i] <= m)

C2_IncompleteTrialNotPlotted ==
    Plotted =>
        LET full == {i \in Eligible : Selected \subseteq DOMAIN study_trials[i].params}
        IN  /\ Len(Descriptors[1].values) = Cardinality(full)
            /\ \A p \in Selected : Len(AxisOf(p).values) = Cardinality(full)

\* C3 as stated: whenever params holds a name that no eligible trial has,
\* also when there is no eligible trial, the call raises the error that
\* names the first such name and returns nothing.
C3_UnknownParameterRejection ==
    (Finished /\ params # None /\ UnknownAt # {}) =>
        /\ pc = "raised"
        /\ raised = Some(params[1][Nth(UnknownAt, 1)])
        /\ figure = None
        /\ dims = <<>>

\* C3 amended: when at least one trial is eligible and params holds a name
\* that no eligible trial has, the call raises the error that names the
\* first such name in params order and returns nothing.
C3_UnknownParameterRejectionEligible ==
    (Finished /\ Eligible # {} /\ params # None /\ UnknownAt # {}) =>
        /\ pc = "raised"
        /\ raised = Some(params[1][Nth(UnknownAt, 1)])
        /\ figure = None
        /\ dims = <<>>

\* a raised call whose params list has two unknown names after a known one
C3_Witness ==
    /\ pc = "raised"
    /\ Eligible # {}
    /\ Cardinality(UnknownAt) >= 2
    /\ 1 \notin UnknownAt

\* C4: with no COMPLETE trial the call returns a figure with no descriptor
\* and raises nothing, whatever the arguments; in a plot the target axis has
\* exactly the COMPLETE trials and the axis of p those of them that have p.
C4_EligibilityAndEmptyInput ==
    /\ (Finished /\ Eligible = {}) =>
          /\ pc = "returned"
          /\ raised = None
          /\ figure = Some([data |-> <<>>])
    /\ Plotted =>
          /\ Eligible # {}
          /\ Len(Descriptors[1].values) = Cardinality(Eligible)
          /\ \A p \in Selected : Len(AxisOf(p).values) = Cardinality(Having(p))

\* a finished call on a study whose trials are all not COMPLETE, with a
\* params list and a custom target
C4_Witness ==
    /\ Finished
    /\ study_trials # <<>>
    /\ Eligible = {}
    /\ params # None /\ params[1] # <<>>
    /\ target # "None"

\* C5: a plot has 1 + (number of distinct selected names) descriptors; the
\* first is labelled target_name and has no ticks; the others are the axes
\* of the selected names in strictly increasing lexicographic order of the
\* full name, whatever the order and the duplicates of params.
C5_OutputShapeAndOrder ==
    Plotted =>
        /\ Len(Descriptors) = 1 + Cardinality(Selected)
        /\ Descriptors[1].label = target_name
        /\ DOMAIN Descriptors[1] = {"label", "values", "range"}
        /\ Len(sorted_params) = Cardinality(Selected)
        /\ \A i \in DOMAIN sorted_params :
              /\ sorted_params[i] \in Selected
              /\ i > 1 => StrLess(sorted_params[i - 1], sorted_params[i])
              /\ LET name == sorted_params[i]
                     label == Descriptors[i + 1].label
                 IN  /\ \A j \in 1..Len(label) : j <= LabelKeep => label[j] = name[j]
                     /\ Len(label) = Len(name) \/ Len(name) >= LabelLimit
              /\ Len(Descriptors[i + 1].values) = Cardinality(Having(sorted_params[i]))

\* a plot for a params list out of order that names one parameter twice
C5_Witness ==
    /\ Plotted
    /\ params # None
    /\ Len(params[1]) = 3
    /\ Cardinality(Selected) = 2
    /\ StrLess(params[1][2], params[1][1])

\* the code of v in raw: the number of distinct values before v first occurs
FirstSeenCode(raw, v) ==
    LET first == CHOOSE i \in DOMAIN raw : raw[i] = v /\ \A j \in 1..(i - 1) : raw[j] # v
    IN  Cardinality({raw[j] : j \in 1..(first - 1)})

\* C6: on a categorical axis each distinct raw value gets the next unused
\* code, from 0, at its first occurrence in trial order; the values are the
\* codes, which are exactly 0..k-1, range is (0, k-1), tickvals is 0..k-1
\* and ticktext[i] is the raw value of code i.  a,b,a,c gives values
\* 0,1,0,2, tickvals 0,1,2 and ticktext a,b,c.
C6_CategoricalEncoding ==
    Plotted =>
        \A p \in Selected :
            CatBranch(p) =>
                LET d == AxisOf(p)
                    raw == RawOf(p)
                    k == Cardinality({raw[j] : j \in DOMAIN raw})
                IN  /\ Len(d.values) = Len(raw)
                    /\ \A j \in DOMAIN raw : d.values[j] = FirstSeenCode(raw, raw[j])
                    /\ {d.values[j] : j \in DOMAIN raw} = 0..(k - 1)
                    /\ d.range = <<0, k - 1>>
                    /\ d.tickvals = [c \in 1..k |-> c - 1]
                    /\ Len(d.ticktext) = k
                    /\ \A j \in DOMAIN raw : d.ticktext[d.values[j] + 1] = raw[j]
                    /\ raw = <<"a", "b", "a", "c">> =>
                          /\ d.values = <<0, 1, 0, 2>>
                          /\ d.tickvals = <<0, 1, 2>>
                          /\ d.ticktext = <<"a", "b", "c">>

\* a plot of the categorical parameter whose raw values are a, b, a, c
C6_Witness ==
    /\ Plotted
    /\ xy \in Selected
    /\ CatBranch(xy)
    /\ Cardinality(Having(xy)) = 4
    /\ RawOf(xy) = <<"a", "b", "a", "c">>

\* C7: in every descriptor of a plot, range is (min, max) of the values and
\* min <= max; with ticks, every tick position is within the range and
\* ticktext is as long as tickvals.
C7_AxisDescriptorConsistency ==
    Plotted =>
        \A i \in DOMAIN Descriptors :
            LET d == Descriptors[i]
            IN  /\ IsMin(d.range[1], d.values)
                /\ IsMax(d.range[2], d.values)
                /\ d.range[1] <= d.range[2]
                /\ HasTicks(d) <=> "ticktext" \in DOMAIN d
                /\ HasTicks(d) =>
                      /\ Len(d.ticktext) = Len(d.tickvals)
                      /\ \A j \in DOMAIN d.tickvals :
                            d.range[1] <= d.tickvals[j] /\ d.tickvals[j] <= d.range[2]

\* a plot with a log-scale axis whose minimum and maximum are not integers
\* and that has integer ticks in between
C7_Witness ==
    /\ Plotted
    /\ \E i \in DOMAIN Descriptors :
          /\ HasTicks(Descriptors[i])
          /\ Len(Descriptors[i].tickvals) >= 4
          /\ Descriptors[i].range[1] % 1000 # 0
          /\ Descriptors[i].range[2] % 1000 # 0

\* C8: the label of a parameter axis is the name when the name has fewer
\* than 20 characters, else its first 17 characters followed by "..."; a
\* label has at most 20 characters and a name of exactly 20 is truncated;
\* so in the log-scale, categorical and plain numeric branches alike.
C8_LabelTruncation ==
    Plotted =>
        \A p \in Selected :
            LET label == AxisOf(p).label
            IN  /\ Len(p) < 20 => label = p
                /\ Len(p) >= 20 =>
                      /\ Len(label) = 20
                      /\ \A j \in 1..17 : label[j] = p[j]
                      /\ \A j \in 18..20 : label[j] = 46
                /\ Len(label) <= 20

\* a plot with the names of 19, 20, 21 and 34 characters, those of 20 and
\* more in the log-scale, the categorical and the plain numeric branch
C8_Witness ==
    /\ Plotted
    /\ Selected = LongNames
    /\ distributions[name20] = "log"
    /\ distributions[name21] = "cat"
    /\ distributions[name34] = "num"

\* math.ceil restated: the least integer that is not below v
CeilOf(v) == CHOOSE n \in -4..4 : n * 1000 >= v /\ (n - 1) * 1000 < v

\* C9: on a log-scale axis with minimum mn and maximum mx of the log10
\* values, tickvals is strictly increasing, starts with mn, ends with mx,
\* and in between has exactly the integers n, ceil(mn) <= n < ceil(mx),
\* other than mn; it is the single tick mn when mn = mx.
C9_LogTickConstruction ==
    Plotted =>
        \A p \in Selected :
            LogBranch(p) =>
                LET d == AxisOf(p)
                    t == d.tickvals
                    logs == [j \in DOMAIN RawOf(p) |-> Log10(RawOf(p)[j])]
                    mn == CHOOSE m \in Range(logs) : IsMin(m, logs)
                    mx == CHOOSE m \in Range(logs) : IsMax(m, logs)
                IN  /\ Len(t) >= 1
                    /\ \A j \in 2..Len(t) : t[j - 1] < t[j]
                    /\ t[1] = mn
                    /\ t[Len(t)] = mx
                    /\ {t[j] : j \in 2..(Len(t) - 1)}
                         = {n * 1000 : n \in CeilOf(mn)..(CeilOf(mx) - 1)} \ {mn}
                    /\ mn = mx => t = <<mn>>

\* a plot with a log-scale axis from 0.5 to 200: ticks -0.301, 0, 1, 2, 2.301
C9_Witness ==
    /\ Plotted
    /\ lr \in Selected
    /\ LogBranch(lr)
    /\ AxisOf(lr).tickvals = <<-301, 0, 1000, 2000, 2301>>

\* C10: a parameter is encoded by the log-scale branch when the log-scale
\* test holds (also when the categorical test holds too), else by the
\* categorical branch when the categorical test holds, else by the plain
\* numeric branch, which emits the raw values unchanged; a descriptor has
\* tickvals and ticktext exactly in the first two cases.
C10_BranchSelection ==
    Plotted =>
        \A p \in Selected :
            LET d == AxisOf(p)
                raw == RawOf(p)
                log == distributions[p] \in {"log", "logcat"}
                cat == distributions[p] \in {"cat", "logcat"}
            IN  /\ HasTicks(d) <=> (log \/ cat)
                /\ ("ticktext" \in DOMAIN d) <=> (log \/ cat)
                /\ log =>
                      /\ d.values = [j \in DOMAIN raw |-> Log10(raw[j])]
                      /\ d.ticktext = [j \in DOMAIN d.tickvals |-> FormatPow10(d.tickvals[j])]
                /\ (~log /\ cat) =>
                      /\ d.tickvals = [c \in 1..Len(d.ticktext) |-> c - 1]
                      /\ \A j \in DOMAIN raw : d.ticktext[d.values[j] + 1] = raw[j]
                /\ (~log /\ ~cat) => d.values = raw

\* a plot of a parameter on which both tests hold, with two distinct values
C10_Witness ==
    /\ Plotted
    /\ \E p \in Selected :
          /\ distributions[p] = "logcat"
          /\ Cardinality({RawOf(p)[j] : j \in DOMAIN RawOf(p)}) >= 2

====
